---- MODULE Spec2Model ----
(***************************************************************************)
(* The translate extension: the content-script component TranslateContent  *)
(* (src/contents/translate.jsx), the settings form                         *)
(* (src/unnamed/part_000) and the background message handler               *)
(* (src/background/messages/translate.ts).                                 *)
(*                                                                         *)
(* JavaScript values are records [t, v]: t is the type tag and v the       *)
(* payload.  A string's payload is the sequence of its lexemes, so the     *)
(* empty string is Str(<<>>) and concatenation is \o.  Message literals of *)
(* the source that are written in Chinese are given by an ASCII gloss.     *)
(***************************************************************************)
EXTENDS Integers, Sequences, FiniteSets, TLC

VARIABLES
  isButtonVisible,           \* useState, translate.jsx:400
  isResultVisible,           \* useState, translate.jsx:401
  selectedText,              \* useState, translate.jsx:402 (code points)
  position,                  \* useState, translate.jsx:403
  translatedText,            \* useState, translate.jsx:404
  isLoading,                 \* useState, translate.jsx:405
  error,                     \* useState, translate.jsx:406
  isTranslating,             \* useState, translate.jsx:407
  isOutsideClickProcessing,  \* useRef,   translate.jsx:415
  apiConfig,                 \* useStorage("data"), translate.jsx:418
  domSelection,              \* window.getSelection(): its text and bounding box
  rafPending,                \* requestAnimationFrame callbacks not yet run (jsx:499)
  guardTimers,               \* setTimeout callbacks not yet run (jsx:505)
  requests,                  \* sendToBackground calls the component still awaits
  issued,                    \* number of sendToBackground calls made so far
  popupGen,                  \* number of times the result popup has been opened
  copied,                    \* useState, translate.jsx:408
  expandSource,              \* useState, translate.jsx:409
  expandTranslation,         \* useState, translate.jsx:410
  clipboardPending,          \* navigator.clipboard.writeText promises not yet settled
  copiedTimers,              \* setTimeout callbacks not yet run (jsx:606)
  dragStarted,               \* useRef of DraggableBox, translate.jsx:278
  dragListeners,             \* the mousemove/mouseup listener pairs on window, each
                             \* with the offset its closure holds (jsx:334-335)
  mounted,                   \* TranslateContent is mounted in the page
  mouseupListeners,          \* mouseup listeners on document (jsx:517)
  mousedownListeners         \* capturing mousedown listeners on document (jsx:518)

vars == <<isButtonVisible, isResultVisible, selectedText, position, translatedText,
          isLoading, error, isTranslating, isOutsideClickProcessing, apiConfig,
          domSelection, rafPending, guardTimers, requests, issued, popupGen,
          copied, expandSource, expandTranslation, clipboardPending, copiedTimers,
          dragStarted, dragListeners, mounted, mouseupListeners, mousedownListeners>>

uiVars == <<isButtonVisible, isResultVisible, selectedText, position, translatedText,
            isLoading, error, isTranslating>>

popupVars == <<copied, expandSource, expandTranslation, clipboardPending, copiedTimers>>

dragVars == <<dragStarted, dragListeners>>

listenerVars == <<mouseupListeners, mousedownListeners>>

widgetVars == <<popupVars, dragVars>>

lifeVars == <<listenerVars, mounted>>

\* ------------------------------------------------------------------------
\* Bounds of the model
\* ------------------------------------------------------------------------
MaxRequests == 2

MaxRaf == 1

\* clipboard writes and "copied" timers pending at once
MaxCopies == 2

\* presses on the title bar with no release seen in between
MaxPresses == 2

\* ------------------------------------------------------------------------
\* JavaScript values
\* ------------------------------------------------------------------------
Undef == [t |-> "undefined", v |-> <<>>]

Null == [t |-> "null", v |-> <<>>]

Str(s) == [t |-> "string", v |-> s]

Num(n) == [t |-> "number", v |-> <<n>>]

\* ToBoolean: "", 0, null and undefined are falsy; objects are truthy.
Truthy(x) ==
  CASE x.t = "string" -> x.v # <<>>
    [] x.t = "number" -> x.v # <<"0">>
    [] x.t \in {"undefined", "null"} -> FALSE
    [] OTHER -> TRUE

\* a || b
Or(a, b) == IF Truthy(a) THEN a ELSE b

\* String.prototype.trim over a sequence, ws the set of whitespace elements.
RECURSIVE TrimLeft(_, _)
TrimLeft(s, ws) ==
  IF s # <<>> /\ Head(s) \in ws THEN TrimLeft(Tail(s), ws) ELSE s

RECURSIVE TrimRight(_, _)
TrimRight(s, ws) ==
  IF s # <<>> /\ s[Len(s)] \in ws THEN TrimRight(SubSeq(s, 1, Len(s) - 1), ws) ELSE s

Trim(s, ws) == TrimRight(TrimLeft(s, ws), ws)

\* ------------------------------------------------------------------------
\* Script detection: /[\u4e00-\u9fa5]/.test(text), once in each file
\* ------------------------------------------------------------------------
RelayCjkFirst == 19968

RelayCjkLast == 40869

UiCjkFirst == 19968

UiCjkLast == 40869

\* translate.ts:16
RelayIsChineseText(text) ==
  \E i \in 1..Len(text) : text[i] >= RelayCjkFirst /\ text[i] <= RelayCjkLast

\* a variant of isChineseText that tests the whole Unicode block, up to U+9FFF
isChineseText_WholeBlock(text) ==
  \E i \in 1..Len(text) : text[i] >= UiCjkFirst /\ text[i] <= 40959

\* translate.jsx:36
isChineseText(text) ==
  \E i \in 1..Len(text) : text[i] >= UiCjkFirst /\ text[i] <= UiCjkLast

\* translate.ts:18-20, the two system prompts
PromptToEnglish == "system: translate the user's Chinese text into English, reply {translation}"

PromptToChinese == "system: translate the user's text into Chinese, reply {translation}"

systemPrompt(text) ==
  IF RelayIsChineseText(text) THEN PromptToEnglish ELSE PromptToChinese

\* translate.jsx:638, the label of the trigger button
buttonText(text) ==
  IF isChineseText(text) THEN "translate to English" ELSE "translate to Chinese"

\* translate.jsx:126 and 171, the direction shown in the popup's heading
popupDirection(text) ==
  IF isChineseText(text) THEN "(->English)" ELSE "(->Chinese)"

\* ------------------------------------------------------------------------
\* The content of the provider's answer, and JSON.parse of it.
\* A content string is a sequence of lexemes:
\*   "sp" white space        "{" "}" braces
\*   "T"  the key "translation":     "K" another key, "note":
\*   "S"  the string literal "w"     "Q" the string literal ""
\*   "7"  the number literal 7       "w" a bare word (plain text)
\* ------------------------------------------------------------------------
Literals == {"S", "Q", "7"}

LiteralValue(l) ==
  CASE l = "S" -> Str(<<"w">>)
    [] l = "Q" -> Str(<<>>)
    [] l = "7" -> Num("7")

JsonObject(translation) == [t |-> "object", v |-> <<>>, translation |-> translation]

\* JSON.parse(content): white space between lexemes is insignificant; the
\* grammar is  value ::= literal | {} | { key literal }.
JSONParse(content) ==
  LET toks == SelectSeq(content, LAMBDA c : c # "sp") IN
  IF Len(toks) = 1 /\ toks[1] \in Literals
    THEN [ok |-> TRUE, value |-> LiteralValue(toks[1])]
  ELSE IF toks = <<"{", "}">>
    THEN [ok |-> TRUE, value |-> JsonObject(Undef)]
  ELSE IF Len(toks) = 4 /\ toks[1] = "{" /\ toks[2] \in {"T", "K"}
          /\ toks[3] \in Literals /\ toks[4] = "}"
    THEN [ok |-> TRUE,
          value |-> JsonObject(IF toks[2] = "T" THEN LiteralValue(toks[3]) ELSE Undef)]
  ELSE [ok |-> FALSE, value |-> Undef]

\* jsonResponse.translation (undefined on a value that is no object)
TranslationOf(value) == IF value.t = "object" THEN value.translation ELSE Undef

\* ------------------------------------------------------------------------
\* The background handler, src/background/messages/translate.ts
\* ------------------------------------------------------------------------
MissingKeyMessage == <<"missing API key configuration">>

FormatErrorMessage == <<"API response does not have the expected format">>

GenericFailure == <<"failed to get the translation result">>

ApiErrorPrefix == <<"API error: ">>

\* messages of errors the runtime raises
FetchErrorMessage == <<"TypeError: Failed to fetch">>

JsonSyntaxMessage == <<"SyntaxError: Unexpected token in JSON">>

NullDerefMessage == <<"TypeError: Cannot read properties of null">>

DefaultApiUrl == Str(<<"https://api.deepseek.com/v1/chat/completions">>)

DefaultModel == Str(<<"deepseek-chat">>)

\* the outcome of a try block: a thrown Error or a value
Throw(message) == [threw |-> TRUE, message |-> message, value |-> Undef]

Return(value) == [threw |-> FALSE, message |-> <<>>, value |-> value]

\* the two res.send calls, lines 106-109 and 112-115
SuccessResponse(result) == [success |-> TRUE, result |-> result, error |-> Undef]

FailureResponse(message) == [success |-> FALSE, result |-> Undef, error |-> Str(message)]

\* a variant of KeyMissing that only tests that a configuration was sent
KeyMissing_ConfigOnly(cfg) == ~Truthy(cfg)

\* line 8: !apiConfig || !apiConfig.apiKey
KeyMissing(cfg) == ~Truthy(cfg) \/ ~Truthy(cfg.apiKey)

\* a variant of FetchCall that takes endpoint, key and model from the
\* settings stored when the call is made, not from the request's apiConfig
FetchCall_FromStorage(text, cfg) ==
  [url |-> Or((IF Truthy(apiConfig) THEN apiConfig ELSE cfg).apiUrl, DefaultApiUrl),
   authorization |-> <<"Bearer ">> \o (IF Truthy(apiConfig) THEN apiConfig ELSE cfg).apiKey.v,
   model |-> Or((IF Truthy(apiConfig) THEN apiConfig ELSE cfg).model, DefaultModel),
   system |-> systemPrompt(text),
   user |-> text]

\* lines 13 and 28-53: the one fetch call of a request
FetchCall(text, cfg) ==
  [url |-> Or(cfg.apiUrl, DefaultApiUrl),
   authorization |-> <<"Bearer ">> \o cfg.apiKey.v,
   model |-> Or(cfg.model, DefaultModel),
   system |-> systemPrompt(text),
   user |-> text]

\* errorData.error?.message
ErrorMessageOf(body) == IF body.error = "object" THEN body.errorMessage ELSE Undef

\* lines 55-59: a response that is not ok
NotOkOutcome(response) ==
  IF response.body.kind = "notjson" THEN Throw(JsonSyntaxMessage)      \* line 56 rejects
  ELSE IF response.body.kind = "null" THEN Throw(NullDerefMessage)     \* line 58, null.error
  ELSE Throw(ApiErrorPrefix \o Or(ErrorMessageOf(response.body), Str(response.statusText)).v)

\* data.choices[0].message?.content
ContentOf(data) == IF data.message = "object" THEN data.content ELSE Undef

\* a variant of ParseContent without the try/catch around JSON.parse
ParseContent_NoCatch(rawContent) ==
  LET content == Trim(rawContent, {"sp"})
      parsed == JSONParse(content) IN
  IF ~parsed.ok THEN Throw(JsonSyntaxMessage)
  ELSE IF Truthy(parsed.value) /\ Truthy(TranslationOf(parsed.value))
    THEN Return(TranslationOf(parsed.value))
  ELSE Return(Str(content))

\* lines 75-91: the content is present and truthy
ParseContent(rawContent) ==
  LET content == Trim(rawContent, {"sp"})
      parsed == JSONParse(content) IN
  IF ~parsed.ok THEN Return(Str(content))                                    \* line 90
  ELSE IF Truthy(parsed.value) /\ Truthy(TranslationOf(parsed.value))
    THEN Return(TranslationOf(parsed.value))                                 \* line 83
  ELSE Return(Str(content))                                                  \* line 86

\* lines 66-94: the inner try block
InnerTry(data) ==
  IF data.kind = "null" \/ data.choices # "nonempty" THEN Throw(FormatErrorMessage)
  ELSE IF data.first = "null" THEN Throw(NullDerefMessage)   \* choices[0].message on null
  ELSE IF data.message # "object" THEN Throw(FormatErrorMessage)
  ELSE IF ~Truthy(data.content) THEN Throw(FormatErrorMessage)
  ELSE ParseContent(data.content.v)

\* lines 95-103: the inner catch block
InnerCatch(data) ==
  IF data.kind # "null" /\ data.choices = "nonempty"
    THEN IF data.first = "null" THEN Throw(NullDerefMessage) \* line 99 throws again
         ELSE Return(Or(ContentOf(data), Str(GenericFailure)))
  ELSE Return(Str(GenericFailure))

\* lines 61-103: a response that is ok
OkOutcome(response) ==
  IF response.body.kind = "notjson" THEN Throw(JsonSyntaxMessage)      \* line 61 rejects
  ELSE IF InnerTry(response.body).threw THEN InnerCatch(response.body)
  ELSE InnerTry(response.body)

\* lines 28-103: what the outer try block comes to once fetch has settled
TryOutcome(o) ==
  IF o.net = "throws" THEN Throw(FetchErrorMessage)
  ELSE IF ~o.ok THEN NotOkOutcome(o)
  ELSE OkOutcome(o)

\* a variant of SendAfterFetch without the outer catch: a throw sends nothing
SendAfterFetch_NoCatch(o) ==
  IF TryOutcome(o).threw THEN <<>>
  ELSE <<SuccessResponse(TryOutcome(o).value)>>

\* lines 105-116: the responses the handler sends once fetch has settled
SendAfterFetch(o) ==
  IF TryOutcome(o).threw THEN <<FailureResponse(TryOutcome(o).message)>>
  ELSE <<SuccessResponse(TryOutcome(o).value)>>

\* lines 8-10 and 110-116: the responses sent when the key is missing
SendKeyMissing == <<FailureResponse(MissingKeyMessage)>>

\* ------------------------------------------------------------------------
\* Settings (src/unnamed/part_000) as the content script reads them
\* ------------------------------------------------------------------------
Config(enabled, apiUrl, apiKey, model) ==
  [t |-> "object", v |-> <<>>, enabled |-> enabled, apiUrl |-> apiUrl,
   apiKey |-> apiKey, model |-> model]

CustomApiUrl == Str(<<"https://example.test/v1/chat/completions">>)

ReasonerModel == Str(<<"deepseek-reasoner">>)

\* the records Setting.onSubmit writes in the composed system
Configs ==
  { Config(TRUE, DefaultApiUrl, Str(<<"sk-1">>), DefaultModel),
    Config(FALSE, CustomApiUrl, Str(<<"sk-2">>), ReasonerModel) }

\* the apiConfig values a request can carry: nothing stored, or an enabled
\* record whose fields are each absent, empty or set
RelayConfigs ==
  {Undef} \cup
  { Config(TRUE, u, k, m) :
      u \in {Undef, Str(<<>>), CustomApiUrl},
      k \in {Undef, Str(<<>>), Str(<<"sk-1">>)},
      m \in {Undef, DefaultModel, ReasonerModel} }

\* translate.jsx:421  apiConfig?.enabled !== false
EnabledIn(cfg) == IF cfg.t = "object" THEN cfg.enabled # FALSE ELSE TRUE

isTranslateEnabled == EnabledIn(apiConfig)

\* ------------------------------------------------------------------------
\* The page: selections, as code points with a bounding box
\* ------------------------------------------------------------------------
\* the code points String.prototype.trim removes, of those the selections use
WhiteSpace == {32}

NoRect == [left |-> 0, bottom |-> 0]

Rects == {[left |-> 10, bottom |-> 20], [left |-> 30, bottom |-> 40]}

\* selections of the composed system: none, blank, Latin, Chinese with a blank
DomSelections ==
  { [text |-> <<>>, rect |-> NoRect],
    [text |-> <<32>>, rect |-> [left |-> 10, bottom |-> 20]],
    [text |-> <<97>>, rect |-> [left |-> 10, bottom |-> 20]],
    [text |-> <<20013, 32>>, rect |-> [left |-> 30, bottom |-> 40]] }

\* texts a request is checked with: Latin, the first and last code point of
\* the regex's range and their neighbours, kana, and mixed texts
RelayTexts ==
  { <<97>>, <<20013>>, <<19968>>, <<40869>>, <<19967>>, <<40870>>, <<12354>>,
    <<97, 20013>>, <<20013, 97>>, <<97, 32, 98>> }

\* selection.toString().trim()
SelectionText == Trim(domSelection.text, WhiteSpace)

\* translate.jsx:458-461
AnchorBelow(rect) == [x |-> rect.left, y |-> rect.bottom + 5]

\* ------------------------------------------------------------------------
\* What fetch can settle to
\* ------------------------------------------------------------------------
Body(kind) ==
  [kind |-> kind, error |-> "absent", errorMessage |-> Undef, choices |-> "absent",
   first |-> "null", message |-> "absent", content |-> Undef]

ErrorBody(message) == [Body("object") EXCEPT !.error = "object", !.errorMessage = message]

ContentBody(content) ==
  [Body("object") EXCEPT !.choices = "nonempty", !.first = "object",
                         !.message = "object", !.content = content]

NetworkThrows ==
  [net |-> "throws", ok |-> FALSE, statusText |-> <<>>, body |-> Body("null")]

Response(ok, statusText, body) ==
  [net |-> "responds", ok |-> ok, statusText |-> statusText, body |-> body]

\* the content strings tried: empty, blank, plain text (padded or not), and
\* JSON texts with and without the translation field, padded or malformed
Contents ==
  { <<>>, <<"sp">>, <<"w">>, <<"w", "sp", "w">>, <<"sp", "w", "sp">>,
    <<"S">>, <<"Q">>, <<"7">>, <<"{", "}">>, <<"{", "K", "S", "}">>,
    <<"{", "T", "S", "}">>, <<"sp", "{", "sp", "T", "sp", "S", "}", "sp">>,
    <<"{", "T", "Q", "}">>, <<"{", "T", "7", "}">>,
    <<"{", "T", "S">>, <<"{", "T", "}">>, <<"{", "T", "S", "}", "w">>,
    <<"sp", "{", "}", "sp">> }

OkBodies ==
  { Body("notjson"), Body("null"), Body("object"),
    [Body("object") EXCEPT !.choices = "empty"],
    [Body("object") EXCEPT !.choices = "nonempty", !.first = "null"],
    [Body("object") EXCEPT !.choices = "nonempty", !.first = "object"],
    ContentBody(Undef), ContentBody(Null) }
  \cup { ContentBody(Str(c)) : c \in Contents }

NotOkBodies ==
  { Body("notjson"), Body("null"), Body("object"),
    ErrorBody(Undef), ErrorBody(Str(<<>>)), ErrorBody(Str(<<"invalid key">>)) }

Outcomes ==
  {NetworkThrows}
  \cup { Response(TRUE, <<"OK">>, b) : b \in OkBodies }
  \cup { Response(FALSE, st, b) : st \in {<<"Unauthorized">>, <<>>}, b \in NotOkBodies }

\* the outcomes tried in the composed system
FewOutcomes ==
  { NetworkThrows,
    Response(TRUE, <<"OK">>, ContentBody(Str(<<"{", "T", "S", "}">>))) }

\* ------------------------------------------------------------------------
\* TranslateContent, src/contents/translate.jsx
\* ------------------------------------------------------------------------
FailPrefix == <<"translation failed: ">>

NoResultMessage == <<"could not get a translation result">>

\* the elements a pointer event can land on: the page, the trigger button
\* (buttonRef), the popup's body (popupRef) and the title bar that
\* DraggableBox draws above it, outside popupRef (lines 363-378)
Elements == {"page", "button", "popup", "handle"}

\* those of them that are rendered (lines 534, 643, 676)
Targets ==
  {"page"} \cup (IF isTranslateEnabled /\ isButtonVisible THEN {"button"} ELSE {})
           \cup (IF isTranslateEnabled /\ isResultVisible THEN {"popup", "handle"} ELSE {})

\* a variant of handleSelection that does not trim the selection's text
handleSelection_Untrimmed(target) ==
  IF ~isTranslateEnabled \/ isTranslating \/ target \in {"button", "popup"}
    THEN UNCHANGED <<position, selectedText, isButtonVisible>>
  ELSE IF domSelection.text # <<>>
    THEN /\ position' = AnchorBelow(domSelection.rect)
         /\ selectedText' = domSelection.text
         /\ isButtonVisible' = TRUE
  ELSE /\ isButtonVisible' = FALSE
       /\ UNCHANGED <<position, selectedText>>

\* a variant of handleSelection without the path test of lines 438-448
handleSelection_NoPathCheck(target) ==
  IF ~isTranslateEnabled \/ isTranslating
    THEN UNCHANGED <<position, selectedText, isButtonVisible>>
  ELSE IF SelectionText # <<>>
    THEN /\ position' = AnchorBelow(domSelection.rect)
         /\ selectedText' = SelectionText
         /\ isButtonVisible' = TRUE
  ELSE /\ isButtonVisible' = FALSE
       /\ UNCHANGED <<position, selectedText>>

\* a variant of handleSelection without the isTranslating test of line 433
handleSelection_WhileTranslating(target) ==
  IF ~isTranslateEnabled \/ target \in {"button", "popup"}
    THEN UNCHANGED <<position, selectedText, isButtonVisible>>
  ELSE IF SelectionText # <<>>
    THEN /\ position' = AnchorBelow(domSelection.rect)
         /\ selectedText' = SelectionText
         /\ isButtonVisible' = TRUE
  ELSE /\ isButtonVisible' = FALSE
       /\ UNCHANGED <<position, selectedText>>

\* lines 427-468, for a mouseup whose composed path holds target
handleSelection(target) ==
  IF ~isTranslateEnabled \/ isTranslating \/ target \in {"button", "popup"}
    THEN UNCHANGED <<position, selectedText, isButtonVisible>>
  ELSE IF SelectionText # <<>>
    THEN /\ position' = AnchorBelow(domSelection.rect)
         /\ selectedText' = SelectionText
         /\ isButtonVisible' = TRUE
  ELSE /\ isButtonVisible' = FALSE
       /\ UNCHANGED <<position, selectedText>>

\* a variant of handleClickOutside that does not look at the guard flag
handleClickOutside_NoGuard(target) ==
  IF ~isTranslateEnabled
    THEN UNCHANGED <<isOutsideClickProcessing, rafPending, guardTimers>>
  ELSE /\ isOutsideClickProcessing' = TRUE
       /\ guardTimers' = guardTimers + 1
       /\ IF target # "button" /\ SelectionText = <<>> /\ ~isTranslating /\ ~isResultVisible
            THEN rafPending' = rafPending + 1
            ELSE UNCHANGED rafPending

\* lines 474-509, for a mousedown whose composed path holds target
handleClickOutside(target) ==
  IF ~isTranslateEnabled \/ isOutsideClickProcessing
    THEN UNCHANGED <<isOutsideClickProcessing, rafPending, guardTimers>>
  ELSE /\ isOutsideClickProcessing' = TRUE
       /\ guardTimers' = guardTimers + 1
       /\ IF target # "button" /\ SelectionText = <<>> /\ ~isTranslating /\ ~isResultVisible
            THEN rafPending' = rafPending + 1
            ELSE UNCHANGED rafPending

\* lines 548-561 up to the await: the state set and the message sent
NewRequest ==
  [id |-> issued + 1,
   popup |-> IF isResultVisible THEN popupGen ELSE popupGen + 1,
   text |-> selectedText,
   apiConfig |-> apiConfig,
   phase |-> "sent",
   calls |-> <<>>,
   outcome |-> <<>>,
   sent |-> <<>>]

\* a variant of handleTranslate that leaves the trigger button on the page
handleTranslate_KeepsButton ==
  /\ isTranslating' = TRUE
  /\ isResultVisible' = TRUE
  /\ isLoading' = TRUE
  /\ error' = Null
  /\ requests' = requests \cup {NewRequest}
  /\ issued' = issued + 1
  /\ popupGen' = NewRequest.popup
  /\ copied' = FALSE
  /\ UNCHANGED <<isButtonVisible, selectedText, position, translatedText>>

\* lines 583-596 with translateText up to its await
handleTranslate ==
  /\ isTranslating' = TRUE
  /\ isButtonVisible' = FALSE
  /\ isResultVisible' = TRUE
  /\ isLoading' = TRUE
  /\ error' = Null
  /\ requests' = requests \cup {NewRequest}
  /\ issued' = issued + 1
  /\ popupGen' = NewRequest.popup
  /\ copied' = FALSE
  /\ UNCHANGED <<selectedText, position, translatedText>>

\* lines 563-576: translateText after its await, for the response resp
ApplyResponse(resp) ==
  /\ IF Truthy(resp.error)
       THEN error' = Str(FailPrefix \o resp.error.v) /\ UNCHANGED translatedText
     ELSE IF Truthy(resp.result)
       THEN translatedText' = resp.result /\ UNCHANGED error
     ELSE error' = Str(FailPrefix \o NoResultMessage) /\ UNCHANGED translatedText
  /\ isLoading' = FALSE

\* lines 572-576: sendToBackground itself rejects with message
ApplyRejection(message) ==
  /\ error' = Str(FailPrefix \o message)
  /\ isLoading' = FALSE
  /\ UNCHANGED translatedText

\* a variant of closeResult that leaves the translating flag set
closeResult_KeepsTranslating ==
  /\ isResultVisible' = FALSE
  /\ translatedText' = Str(<<>>)
  /\ error' = Null
  /\ copied' = FALSE
  /\ expandSource' = FALSE
  /\ expandTranslation' = FALSE
  /\ UNCHANGED <<isButtonVisible, selectedText, position, isLoading, isTranslating>>

\* a variant of closeResult that leaves the "copied" mark set
closeResult_KeepsCopied ==
  /\ isResultVisible' = FALSE
  /\ translatedText' = Str(<<>>)
  /\ error' = Null
  /\ isTranslating' = FALSE
  /\ expandSource' = FALSE
  /\ expandTranslation' = FALSE
  /\ UNCHANGED <<isButtonVisible, selectedText, position, isLoading, copied>>

\* lines 619-631
closeResult ==
  /\ isResultVisible' = FALSE
  /\ translatedText' = Str(<<>>)
  /\ error' = Null
  /\ isTranslating' = FALSE
  /\ copied' = FALSE
  /\ expandSource' = FALSE
  /\ expandTranslation' = FALSE
  /\ UNCHANGED <<isButtonVisible, selectedText, position, isLoading>>

\* a variant of the effect without its else branch: the flags are left alone
ListenerEffect_KeepsFlags(cfg) ==
  UNCHANGED <<isButtonVisible, isResultVisible, isTranslating>>

\* lines 512-531: the effect after apiConfig has become cfg
ListenerEffect(cfg) ==
  IF EnabledIn(cfg)
    THEN UNCHANGED <<isButtonVisible, isResultVisible, isTranslating>>
  ELSE /\ isButtonVisible' = FALSE
       /\ isResultVisible' = FALSE
       /\ isTranslating' = FALSE

\* a variant of the cleanup that removes nothing
EffectCleanup_Keeps(n, wasEnabled) == n

\* lines 521-524: the cleanup of an effect run that found the feature enabled
\* (wasEnabled) removes the listener that run added, out of n attached
EffectCleanup(n, wasEnabled) == IF wasEnabled /\ n > 0 THEN n - 1 ELSE n

\* lines 514-518: a run that finds the feature enabled adds a listener
EffectAttach(n, nowEnabled) == IF nowEnabled THEN n + 1 ELSE n

\* line 531: one of isTranslating, isResultVisible, isTranslateEnabled has
\* changed, so React runs the previous cleanup and then the effect again
RerunEffect(wasEnabled, nowEnabled) ==
  /\ mouseupListeners' = EffectAttach(EffectCleanup(mouseupListeners, wasEnabled), nowEnabled)
  /\ mousedownListeners' =
       EffectAttach(EffectCleanup(mousedownListeners, wasEnabled), nowEnabled)

\* ------------------------------------------------------------------------
\* DraggableBox, src/contents/translate.jsx:274-382.  Its position state is
\* kept equal to the parent's position: it starts as initialPosition (276),
\* follows it (281-283), and every change it makes is passed to the parent
\* through onPositionChange (319-321, 540-542)
\* ------------------------------------------------------------------------
HandleHeight == 30

\* lines 289-342, for a mousedown event e on the box whose top-left corner is
\* at position (getBoundingClientRect of the fixed box, lines 349-351)
handleMouseDown(e) ==
  IF e.clientY - position.y < HandleHeight
    THEN /\ dragStarted' = TRUE
         /\ dragListeners' = Append(dragListeners,
                                    [offsetX |-> e.clientX - position.x,
                                     offsetY |-> e.clientY - position.y])
    ELSE UNCHANGED <<dragStarted, dragListeners>>

\* lines 310-322: every mousemove listener on window runs, in the order they
\* were added, so the position set last is that of the last one
handleGlobalMouseMove(e) ==
  IF dragStarted /\ dragListeners # <<>>
    THEN position' = [x |-> e.clientX - dragListeners[Len(dragListeners)].offsetX,
                      y |-> e.clientY - dragListeners[Len(dragListeners)].offsetY]
    ELSE UNCHANGED position

\* a variant of handleGlobalMouseUp whose removeEventListener calls match no
\* listener
handleGlobalMouseUp_KeepsListeners ==
  /\ dragStarted' = (dragStarted /\ dragListeners = <<>>)
  /\ UNCHANGED dragListeners

\* lines 328-335: every mouseup listener on window runs; each removes its own
\* pair of listeners and clears dragStarted
handleGlobalMouseUp ==
  /\ dragStarted' = (dragStarted /\ dragListeners = <<>>)
  /\ dragListeners' = <<>>

\* ------------------------------------------------------------------------
\* Actions
\* ------------------------------------------------------------------------
\* the user changes the page's selection
SelectionChange(sel) ==
  /\ mounted
  /\ sel # domSelection
  /\ domSelection' = sel
  /\ UNCHANGED <<uiVars, isOutsideClickProcessing, apiConfig, rafPending, guardTimers,
                 requests, issued, popupGen, widgetVars, lifeVars>>

\* a mouseup reaches the document listener of line 517
MouseUp(target) ==
  /\ mounted
  /\ mouseupListeners > 0
  /\ target \in Targets
  /\ handleSelection(target)
  /\ UNCHANGED <<isResultVisible, translatedText, isLoading, error, isTranslating,
                 isOutsideClickProcessing, apiConfig, domSelection, rafPending,
                 guardTimers, requests, issued, popupGen, widgetVars, lifeVars>>

\* a mousedown reaches the capturing document listener of line 518
MouseDown(target) ==
  /\ mounted
  /\ mousedownListeners > 0
  /\ target \in Targets
  /\ handleClickOutside(target)
  /\ rafPending' <= MaxRaf
  /\ UNCHANGED <<uiVars, apiConfig, domSelection, requests, issued, popupGen,
                 widgetVars, lifeVars>>

\* the callback of line 499 runs
RafFire ==
  /\ rafPending > 0
  /\ rafPending' = rafPending - 1
  /\ isButtonVisible' = FALSE
  /\ UNCHANGED <<isResultVisible, selectedText, position, translatedText, isLoading,
                 error, isTranslating, isOutsideClickProcessing, apiConfig,
                 domSelection, guardTimers, requests, issued, popupGen,
                 widgetVars, lifeVars>>

\* the callback of line 505 runs
GuardTimeout ==
  /\ guardTimers > 0
  /\ guardTimers' = guardTimers - 1
  /\ isOutsideClickProcessing' = FALSE
  /\ UNCHANGED <<uiVars, apiConfig, domSelection, rafPending, requests, issued, popupGen,
                 widgetVars, lifeVars>>

\* a click on the trigger button (line 667)
ClickTranslate ==
  /\ mounted
  /\ isTranslateEnabled
  /\ isButtonVisible
  /\ issued < MaxRequests
  /\ handleTranslate
  /\ RerunEffect(TRUE, TRUE)
  /\ UNCHANGED <<isOutsideClickProcessing, apiConfig, domSelection, rafPending, guardTimers,
                 expandSource, expandTranslation, clipboardPending, copiedTimers,
                 dragVars, mounted>>

\* a click on the popup's close button (line 223)
ClickClose ==
  /\ mounted
  /\ isTranslateEnabled
  /\ isResultVisible
  /\ closeResult
  /\ RerunEffect(TRUE, TRUE)
  /\ UNCHANGED <<isOutsideClickProcessing, apiConfig, domSelection, rafPending,
                 guardTimers, requests, issued, popupGen, clipboardPending,
                 copiedTimers, dragVars, mounted>>

\* Setting.onSubmit writes cfg and the content script re-renders with it
SubmitSettings(cfg) ==
  /\ mounted
  /\ cfg # apiConfig
  /\ apiConfig' = cfg
  /\ ListenerEffect(cfg)
  /\ IF EnabledIn(cfg) # isTranslateEnabled
       THEN RerunEffect(isTranslateEnabled, EnabledIn(cfg))
       ELSE UNCHANGED listenerVars
  /\ UNCHANGED <<selectedText, position, translatedText, isLoading, error,
                 isOutsideClickProcessing, domSelection, rafPending, guardTimers,
                 requests, issued, popupGen, widgetVars, mounted>>

\* the handler receives request r and runs up to its await of fetch
RelayStart(r) ==
  /\ r.phase = "sent"
  /\ requests' = (requests \ {r}) \cup
       { IF KeyMissing(r.apiConfig)
           THEN [r EXCEPT !.phase = "responded", !.sent = r.sent \o SendKeyMissing]
           ELSE [r EXCEPT !.phase = "fetching",
                          !.calls = Append(r.calls, FetchCall(r.text, r.apiConfig))] }
  /\ UNCHANGED <<uiVars, isOutsideClickProcessing, apiConfig, domSelection, rafPending,
                 guardTimers, issued, popupGen, widgetVars, lifeVars>>

\* fetch settles to o and the handler runs to its end
RelayFinish(r, o) ==
  /\ r.phase = "fetching"
  /\ requests' = (requests \ {r}) \cup
       { [r EXCEPT !.phase = "responded", !.outcome = <<o>>,
                   !.sent = r.sent \o SendAfterFetch(o)] }
  /\ UNCHANGED <<uiVars, isOutsideClickProcessing, apiConfig, domSelection, rafPending,
                 guardTimers, issued, popupGen, widgetVars, lifeVars>>

\* the response of request r reaches the component: translateText resumes
Resolve(r) ==
  /\ r.phase = "responded"
  /\ r.sent # <<>>
  /\ IF mounted
       THEN ApplyResponse(r.sent[1])
       ELSE UNCHANGED <<translatedText, error, isLoading>>
  /\ requests' = requests \ {r}
  /\ UNCHANGED <<isButtonVisible, isResultVisible, selectedText, position, isTranslating,
                 isOutsideClickProcessing, apiConfig, domSelection, rafPending,
                 guardTimers, issued, popupGen, widgetVars, lifeVars>>

\* sendToBackground rejects before the handler has seen request r
SendFails(r) ==
  /\ r.phase = "sent"
  /\ IF mounted
       THEN ApplyRejection(<<"Error: could not establish connection">>)
       ELSE UNCHANGED <<translatedText, error, isLoading>>
  /\ requests' = requests \ {r}
  /\ UNCHANGED <<isButtonVisible, isResultVisible, selectedText, position, isTranslating,
                 isOutsideClickProcessing, apiConfig, domSelection, rafPending,
                 guardTimers, issued, popupGen, widgetVars, lifeVars>>

\* the popup shows a translation and its copy button (lines 192-245)
ShowsResult == isResultVisible /\ ~isLoading /\ ~Truthy(error)

\* a click on the copy button (line 226): copyTranslatedText up to the
\* promise of line 603
ClickCopy ==
  /\ mounted
  /\ isTranslateEnabled
  /\ ShowsResult
  /\ Truthy(translatedText)
  /\ clipboardPending + copiedTimers < MaxCopies
  /\ clipboardPending' = clipboardPending + 1
  /\ UNCHANGED <<uiVars, isOutsideClickProcessing, apiConfig, domSelection, rafPending,
                 guardTimers, requests, issued, popupGen, copied, expandSource,
                 expandTranslation, copiedTimers, dragVars, lifeVars>>

\* the clipboard write succeeds: the callback of lines 604-607
ClipboardResolves ==
  /\ clipboardPending > 0
  /\ clipboardPending' = clipboardPending - 1
  /\ copied' = mounted
  /\ copiedTimers' = copiedTimers + 1
  /\ UNCHANGED <<uiVars, isOutsideClickProcessing, apiConfig, domSelection, rafPending,
                 guardTimers, requests, issued, popupGen, expandSource,
                 expandTranslation, dragVars, lifeVars>>

\* the clipboard write fails: the callback of lines 608-610 only logs
ClipboardRejects ==
  /\ clipboardPending > 0
  /\ clipboardPending' = clipboardPending - 1
  /\ UNCHANGED <<uiVars, isOutsideClickProcessing, apiConfig, domSelection, rafPending,
                 guardTimers, requests, issued, popupGen, copied, expandSource,
                 expandTranslation, copiedTimers, dragVars, lifeVars>>

\* the callback of line 606 runs
CopiedTimeout ==
  /\ copiedTimers > 0
  /\ copiedTimers' = copiedTimers - 1
  /\ copied' = FALSE
  /\ UNCHANGED <<uiVars, isOutsideClickProcessing, apiConfig, domSelection, rafPending,
                 guardTimers, requests, issued, popupGen, expandSource,
                 expandTranslation, clipboardPending, dragVars, lifeVars>>

\* a click on the toggle under the source text (lines 69-74 with onToggle of
\* line 168); the toggle is rendered when the text needs more than maxRows
ToggleSource ==
  /\ mounted
  /\ isTranslateEnabled
  /\ isResultVisible
  /\ expandSource' = ~expandSource
  /\ UNCHANGED <<uiVars, isOutsideClickProcessing, apiConfig, domSelection, rafPending,
                 guardTimers, requests, issued, popupGen, copied, expandTranslation,
                 clipboardPending, copiedTimers, dragVars, lifeVars>>

\* a click on the toggle under the translation (lines 69-74 with onToggle of
\* line 208)
ToggleTranslation ==
  /\ mounted
  /\ isTranslateEnabled
  /\ ShowsResult
  /\ expandTranslation' = ~expandTranslation
  /\ UNCHANGED <<uiVars, isOutsideClickProcessing, apiConfig, domSelection, rafPending,
                 guardTimers, requests, issued, popupGen, copied, expandSource,
                 clipboardPending, copiedTimers, dragVars, lifeVars>>

\* a mousedown on the box of the popup: the capturing document listener runs
\* first (line 518), then the box's onMouseDown (line 355)
DragPress(e) ==
  /\ mounted
  /\ isTranslateEnabled
  /\ isResultVisible
  /\ mousedownListeners > 0
  /\ handleClickOutside("handle")
  /\ rafPending' <= MaxRaf
  /\ handleMouseDown(e)
  /\ Len(dragListeners') <= MaxPresses
  /\ UNCHANGED <<uiVars, apiConfig, domSelection, requests, issued, popupGen,
                 popupVars, lifeVars>>

\* the pointer moves to e: the mousemove listeners on window run
PointerMove(e) ==
  /\ mounted
  /\ handleGlobalMouseMove(e)
  /\ UNCHANGED <<isButtonVisible, isResultVisible, selectedText, translatedText,
                 isLoading, error, isTranslating, isOutsideClickProcessing, apiConfig,
                 domSelection, rafPending, guardTimers, requests, issued, popupGen,
                 widgetVars, lifeVars>>

\* the button is released, over the title bar if the popup is still there:
\* the capturing mouseup listeners on window run, then the document's mouseup
\* listener (line 517)
DragRelease ==
  /\ mounted
  /\ mouseupListeners > 0
  /\ handleGlobalMouseUp
  /\ handleSelection(IF isResultVisible THEN "handle" ELSE "page")
  /\ UNCHANGED <<isResultVisible, translatedText, isLoading, error, isTranslating,
                 isOutsideClickProcessing, apiConfig, domSelection, rafPending,
                 guardTimers, requests, issued, popupGen, popupVars, lifeVars>>

\* React unmounts TranslateContent: the effect's cleanup runs (lines 521-524)
\* and the component's state is discarded; callbacks already scheduled and
\* requests already sent stay pending, and setting state from them does nothing
Unmount ==
  /\ mounted
  /\ mounted' = FALSE
  /\ mouseupListeners' = EffectCleanup(mouseupListeners, isTranslateEnabled)
  /\ mousedownListeners' = EffectCleanup(mousedownListeners, isTranslateEnabled)
  /\ isButtonVisible' = FALSE
  /\ isResultVisible' = FALSE
  /\ selectedText' = <<>>
  /\ position' = [x |-> 0, y |-> 0]
  /\ translatedText' = Str(<<>>)
  /\ isLoading' = FALSE
  /\ error' = Null
  /\ isTranslating' = FALSE
  /\ copied' = FALSE
  /\ expandSource' = FALSE
  /\ expandTranslation' = FALSE
  /\ UNCHANGED <<isOutsideClickProcessing, apiConfig, domSelection, rafPending,
                 guardTimers, requests, issued, popupGen, clipboardPending,
                 copiedTimers, dragVars>>

\* ------------------------------------------------------------------------
\* The composed system: page, component, settings form and handler
\* ------------------------------------------------------------------------
Init ==
  /\ isButtonVisible = FALSE
  /\ isResultVisible = FALSE
  /\ selectedText = <<>>
  /\ position = [x |-> 0, y |-> 0]
  /\ translatedText = Str(<<>>)
  /\ isLoading = FALSE
  /\ error = Null
  /\ isTranslating = FALSE
  /\ isOutsideClickProcessing = FALSE
  /\ apiConfig = Undef
  /\ domSelection = [text |-> <<>>, rect |-> NoRect]
  /\ rafPending = 0
  /\ guardTimers = 0
  /\ requests = {}
  /\ issued = 0
  /\ popupGen = 0
  /\ copied = FALSE
  /\ expandSource = FALSE
  /\ expandTranslation = FALSE
  /\ clipboardPending = 0
  /\ copiedTimers = 0
  /\ dragStarted = FALSE
  /\ dragListeners = <<>>
  /\ mounted = TRUE
  /\ mouseupListeners = 1
  /\ mousedownListeners = 1

Next ==
  \/ \E sel \in DomSelections : SelectionChange(sel)
  \/ \E target \in Elements : MouseUp(target)
  \/ \E target \in Elements : MouseDown(target)
  \/ RafFire
  \/ GuardTimeout
  \/ ClickTranslate
  \/ ClickClose
  \/ \E cfg \in Configs : SubmitSettings(cfg)
  \/ \E r \in requests : RelayStart(r)
  \/ \E r \in requests : \E o \in FewOutcomes : RelayFinish(r, o)
  \/ \E r \in requests : Resolve(r)
  \/ \E r \in requests : SendFails(r)
  \/ Unmount

Spec == Init /\ [][Next]_vars

\* ------------------------------------------------------------------------
\* The page's events and the component alone: requests that were sent stay
\* pending. A timer that is due does run: the callback of setTimeout
\* (line 505) is not held back forever
\* ------------------------------------------------------------------------
ClickNext ==
  \/ \E sel \in DomSelections : SelectionChange(sel)
  \/ \E target \in Elements : MouseUp(target)
  \/ \E target \in Elements : MouseDown(target)
  \/ RafFire
  \/ GuardTimeout
  \/ ClickTranslate
  \/ ClickClose
  \/ \E cfg \in Configs : SubmitSettings(cfg)
  \/ Unmount

ClickSpec == Init /\ [][ClickNext]_vars /\ WF_vars(GuardTimeout)

\* ------------------------------------------------------------------------
\* One request followed through the handler: the state right after the
\* trigger was activated for a text and a stored configuration, each drawn
\* from its set, and every outcome of fetch
\* ------------------------------------------------------------------------
\* the state right after handleTranslate has run for a selection of text at
\* rect while cfg was stored (lines 583-596 and 548-561)
AfterTrigger(text, cfg, rect) ==
  /\ isButtonVisible = FALSE
  /\ isResultVisible = TRUE
  /\ selectedText = text
  /\ position = AnchorBelow(rect)
  /\ translatedText = Str(<<>>)
  /\ isLoading = TRUE
  /\ error = Null
  /\ isTranslating = TRUE
  /\ isOutsideClickProcessing = FALSE
  /\ apiConfig = cfg
  /\ domSelection = [text |-> text, rect |-> rect]
  /\ rafPending = 0
  /\ guardTimers = 0
  /\ requests = { [id |-> 1, popup |-> 1, text |-> text, apiConfig |-> cfg,
                   phase |-> "sent", calls |-> <<>>, outcome |-> <<>>, sent |-> <<>>] }
  /\ issued = 1
  /\ popupGen = 1
  /\ copied = FALSE
  /\ expandSource = FALSE
  /\ expandTranslation = FALSE
  /\ clipboardPending = 0
  /\ copiedTimers = 0
  /\ dragStarted = FALSE
  /\ dragListeners = <<>>
  /\ mounted = TRUE
  /\ mouseupListeners = 1
  /\ mousedownListeners = 1

RelayInit ==
  \E text \in RelayTexts, cfg \in RelayConfigs, rect \in Rects :
    AfterTrigger(text, cfg, rect)

RelayNext ==
  \/ \E r \in requests : RelayStart(r)
  \/ \E r \in requests : \E o \in Outcomes : RelayFinish(r, o)
  \/ \E r \in requests : Resolve(r)
  \/ \E r \in requests : SendFails(r)

RelaySpec == RelayInit /\ [][RelayNext]_vars

\* ------------------------------------------------------------------------
\* One popup followed from its opening to its close: the request, the copy
\* button, the two expand toggles and the close button
\* ------------------------------------------------------------------------
PopupTexts == { <<97>>, <<20013>> }

PopupInit ==
  \E text \in PopupTexts, rect \in Rects :
    \E cfg \in {Undef} \cup {c \in Configs : EnabledIn(c)} :
      AfterTrigger(text, cfg, rect)

PopupNext ==
  \/ \E r \in requests : RelayStart(r)
  \/ \E r \in requests : \E o \in FewOutcomes : RelayFinish(r, o)
  \/ \E r \in requests : Resolve(r)
  \/ \E r \in requests : SendFails(r)
  \/ ClickCopy
  \/ ClipboardResolves
  \/ ClipboardRejects
  \/ CopiedTimeout
  \/ ToggleSource
  \/ ToggleTranslation
  \/ ClickClose

PopupSpec == PopupInit /\ [][PopupNext]_vars

\* ------------------------------------------------------------------------
\* The box of one open popup: presses on it, pointer movement, releases
\* ------------------------------------------------------------------------
\* where in the box a press lands, from its top-left corner
PressPoints ==
  { [dx |-> 0, dy |-> 0], [dx |-> 100, dy |-> 29],
    [dx |-> 100, dy |-> 30], [dx |-> 0, dy |-> 60] }

\* where the pointer moves to, in viewport coordinates
Pointers ==
  { [clientX |-> 5, clientY |-> 5], [clientX |-> 120, clientY |-> 40],
    [clientX |-> 200, clientY |-> 150] }

PressAt(pt) == [clientX |-> position.x + pt.dx, clientY |-> position.y + pt.dy]

DragNext ==
  \/ \E pt \in PressPoints : DragPress(PressAt(pt))
  \/ \E e \in Pointers : PointerMove(e)
  \/ DragRelease
  \/ GuardTimeout
  \/ ClickClose

DragSpec == PopupInit /\ [][DragNext]_vars

\* ------------------------------------------------------------------------
\* Properties
\* ------------------------------------------------------------------------
\* request r is no longer awaited after the step
Settled(r) == \A q \in requests' : q.id # r.id

\* the popup that issued r is the one on the page
OwnPopupOpen(r) == isResultVisible /\ r.popup = popupGen

\* the number of popups on the page (line 676 renders one DraggableBox)
OpenPopups == IF isResultVisible THEN 1 ELSE 0

\* C1, as the spec states it: at most one popup is open and at most one
\* translation request is in flight, in every reachable state.
C1_AtMostOneInFlight == OpenPopups <= 1 /\ Cardinality(requests) <= 1

\* C1, amended: at most one popup is open and no popup has more than one
\* request in flight; a request is issued only by a popup that opens with it.
\* Requests of popups that are gone may still be in flight beside it.
C1_OneRequestPerPopup ==
  /\ OpenPopups <= 1
  /\ \A r \in requests, q \in requests : r.popup = q.popup => r = q
  /\ \A r \in requests : r.popup <= popupGen
  /\ (isResultVisible => popupGen > 0)

\* C1: a popup is open with its own request in flight while the request of
\* an earlier, closed popup is in flight too.
C1_Witness ==
  /\ isResultVisible
  /\ \E r \in requests : r.popup = popupGen
  /\ \E r \in requests : r.popup < popupGen

\* C2: when a request settles after the popup that issued it is gone, the
\* step changes none of translatedText, error and isLoading.
C2_StaleResolutionDiscarded ==
  [][\A r \in requests :
       (Settled(r) /\ ~OwnPopupOpen(r)) => UNCHANGED <<translatedText, error, isLoading>>]_vars

\* a response has exactly one of result and error, as its success flag says,
\* and each is a string
StrictResponse(resp) ==
  \/ resp.success /\ resp.result.t = "string" /\ resp.error = Undef
  \/ ~resp.success /\ resp.error.t = "string" /\ resp.error.v # <<>> /\ resp.result = Undef

\* C3: a handler that has run to its end has sent exactly one response, no
\* handler ever sends two, and the response carries either a result string
\* with success or a failure reason string without, never both or neither.
C3_ExactlyOneResponse ==
  \A r \in requests :
    /\ Len(r.sent) <= 1
    /\ r.phase = "responded" => Len(r.sent) = 1 /\ StrictResponse(r.sent[1])

\* the claim's own reading of "absent or empty key"
NoKeyIn(cfg) == cfg = Undef \/ cfg.apiKey = Undef \/ cfg.apiKey = Str(<<>>)

\* C4: a request whose apiConfig is absent, or whose apiKey is absent or
\* empty, is answered {success: false, error: missing key} and no fetch call
\* is made for it.
C4_MissingKeyNoCall ==
  \A r \in requests :
    (r.phase # "sent" /\ NoKeyIn(r.apiConfig)) =>
      r.sent = <<[success |-> FALSE, result |-> Undef, error |-> Str(MissingKeyMessage)]>>
      /\ r.calls = <<>> /\ r.outcome = <<>>

\* C4: a request whose configuration has an empty key has been answered.
C4_Witness ==
  \E r \in requests :
    r.apiConfig # Undef /\ r.apiConfig.apiKey = Str(<<>>) /\ r.phase = "responded"

\* the content string of a 2xx answer that has one
HasContent(r) ==
  /\ r.outcome # <<>>
  /\ r.outcome[1].net = "responds" /\ r.outcome[1].ok
  /\ r.outcome[1].body.kind = "object"
  /\ r.outcome[1].body.choices = "nonempty"
  /\ r.outcome[1].body.first = "object"
  /\ r.outcome[1].body.message = "object"
  /\ r.outcome[1].body.content.t = "string"

ContentIn(r) == r.outcome[1].body.content.v

HasTranslationField(c) ==
  JSONParse(c).ok /\ JSONParse(c).value.t = "object" /\ JSONParse(c).value.translation # Undef

\* C5: when the content of a 2xx answer parses as JSON with a translation
\* field, the response is success with that field's value as result,
\* whatever the value.
C5_TranslationFieldIsResult ==
  \A r \in requests :
    (HasContent(r) /\ HasTranslationField(ContentIn(r))) =>
      r.sent = <<[success |-> TRUE, result |-> JSONParse(ContentIn(r)).value.translation,
                  error |-> Undef]>>

\* C6, as the spec states it: when the content of a 2xx answer is not valid
\* JSON, or is JSON without a translation field, the response is success
\* with the raw content string as result.
C6_RawContentIsResult ==
  \A r \in requests :
    (HasContent(r) /\ ~HasTranslationField(ContentIn(r))) =>
      r.sent = <<[success |-> TRUE, result |-> Str(ContentIn(r)), error |-> Undef]>>

\* the content with the white space at its two ends removed
Trimmed(c) ==
  LET first == CHOOSE i \in 1..(Len(c) + 1) :
                 /\ \A j \in 1..(i - 1) : c[j] = "sp"
                 /\ (i <= Len(c) => c[i] # "sp")
      last == CHOOSE i \in 0..Len(c) :
                /\ \A j \in (i + 1)..Len(c) : c[j] = "sp"
                /\ (i >= 1 => c[i] # "sp")
  IN  SubSeq(c, first, last)

\* C6, amended: when the content of a 2xx answer is a non-empty string that
\* is not valid JSON, or is JSON without a translation field, the response
\* is success with the content, white space at its ends removed, as result.
C6_TrimmedContentIsResult ==
  \A r \in requests :
    (HasContent(r) /\ ContentIn(r) # <<>> /\ ~HasTranslationField(ContentIn(r))) =>
      r.sent = <<[success |-> TRUE, result |-> Str(Trimmed(ContentIn(r))), error |-> Undef]>>

\* C6: plain text with white space around it came back trimmed.
C6_Witness ==
  \E r \in requests :
    /\ HasContent(r) /\ ContentIn(r) = <<"sp", "w", "sp">>
    /\ r.sent = <<[success |-> TRUE, result |-> Str(<<"w">>), error |-> Undef]>>

\* the provider's error message, when the error body carries one
CarriesMessage(body) ==
  body.kind = "object" /\ body.error = "object" /\ body.errorMessage.t = "string"
  /\ body.errorMessage.v # <<>>

\* C7: a non-2xx answer is answered {success: false} with "API error: "
\* followed by the provider's message when the body carries one and by the
\* status text in every other case, a body that is not JSON included.
C7_ApiErrorMessage ==
  \A r \in requests :
    (r.outcome # <<>> /\ r.outcome[1].net = "responds" /\ ~r.outcome[1].ok) =>
      r.sent = <<[success |-> FALSE, result |-> Undef,
                  error |-> Str(ApiErrorPrefix \o
                     (IF CarriesMessage(r.outcome[1].body)
                        THEN r.outcome[1].body.errorMessage.v
                        ELSE r.outcome[1].statusText))]>>

\* a 2xx JSON body without a choices[0].message.content
LacksContentPath(body) ==
  /\ body.kind # "notjson"
  /\ \/ body.kind = "null"
     \/ body.choices # "nonempty"
     \/ body.first # "object"
     \/ body.message # "object"
     \/ body.content \in {Undef, Null}

\* C8: a 2xx answer whose body lacks choices[0].message.content ends in a
\* failure: the response has success false and a failure reason string, and
\* no result.
C8_FormatErrorIsFailure ==
  \A r \in requests :
    (r.outcome # <<>> /\ r.outcome[1].net = "responds" /\ r.outcome[1].ok
       /\ LacksContentPath(r.outcome[1].body)) =>
      /\ Len(r.sent) = 1
      /\ ~r.sent[1].success
      /\ r.sent[1].error.t = "string"
      /\ r.sent[1].result = Undef

\* C9: a fetch that throws is answered {success: false} with the thrown
\* message, no request has more than one fetch call, and when that answer
\* reaches the popup that issued the request the popup shows it as its
\* error and stops loading.
C9_NetworkFailureSurfaced ==
  /\ [](\A r \in requests :
          /\ Len(r.calls) <= 1
          /\ (r.outcome # <<>> /\ r.outcome[1].net = "throws") =>
               /\ r.sent = <<[success |-> FALSE, result |-> Undef,
                              error |-> Str(FetchErrorMessage)]>>
               /\ Len(r.calls) = 1)
  /\ [][\A r \in requests :
          (r.outcome # <<>> /\ r.outcome[1].net = "throws" /\ Settled(r) /\ OwnPopupOpen(r)) =>
             /\ error' = Str(FailPrefix \o FetchErrorMessage)
             /\ isLoading' = FALSE
             /\ isResultVisible']_vars

\* C9: the only request made has settled and its popup shows the network
\* failure.
C9_Witness ==
  /\ issued = 1 /\ requests = {}
  /\ isResultVisible /\ ~isLoading
  /\ error = Str(FailPrefix \o FetchErrorMessage)

\* the text has a code point in U+4E00..U+9FA5
HasCjkIdeograph(text) == \E i \in 1..Len(text) : text[i] \in 19968..40869

\* C10: for the text of every request, the handler's system prompt, the
\* label of the trigger button and the popup's direction all say "to
\* English" exactly when the text has a CJK ideograph and "to Chinese"
\* otherwise; the popup that issued the request shows the request's text.
C10_DirectionsAgree ==
  \A r \in requests :
    /\ OwnPopupOpen(r) => selectedText = r.text
    /\ buttonText(r.text) =
         (IF HasCjkIdeograph(r.text) THEN "translate to English" ELSE "translate to Chinese")
    /\ popupDirection(r.text) =
         (IF HasCjkIdeograph(r.text) THEN "(->English)" ELSE "(->Chinese)")
    /\ \A i \in 1..Len(r.calls) :
         /\ r.calls[i].user = r.text
         /\ r.calls[i].system =
              (IF HasCjkIdeograph(r.text) THEN PromptToEnglish ELSE PromptToChinese)

\* C10: fetch was called for a text that mixes Latin and Chinese, with the
\* prompt that asks for English.
C10_Witness ==
  \E r \in requests :
    /\ r.text = <<97, 20013>>
    /\ r.calls # <<>> /\ r.calls[1].system = PromptToEnglish
    /\ buttonText(selectedText) = "translate to English"

\* ------------------------------------------------------------------------
\* C11  Closing the popup, whatever it shows (loading, an error, a result),
\* leaves neither popup nor button on the page, and translatedText empty,
\* error null, copied false and both expand flags false.
\* ------------------------------------------------------------------------
PopupCloses == isResultVisible /\ ~isResultVisible' /\ isTranslateEnabled'

C11_CloseLeadsToIdle ==
  [][PopupCloses =>
       /\ ~isButtonVisible'
       /\ translatedText' = Str(<<>>)
       /\ error' = Null
       /\ ~copied'
       /\ ~expandSource'
       /\ ~expandTranslation']_vars

\* a popup that was closed while its "copied" mark was still to be cleared
C11_Witness ==
  /\ ~isResultVisible
  /\ ~isButtonVisible
  /\ ~copied
  /\ copiedTimers > 0
  /\ requests = {}

\* ------------------------------------------------------------------------
\* C12  Closing the popup resets every field of the popup's state to its
\* initial value: visible, loading, error, translatedText, copied, position
\* and the two expand flags, also when it is closed while loading.
\* ------------------------------------------------------------------------
C12_CloseResetsEveryField ==
  [][PopupCloses =>
       /\ ~isLoading'
       /\ error' = Null
       /\ translatedText' = Str(<<>>)
       /\ ~copied'
       /\ position' = [x |-> 0, y |-> 0]
       /\ ~expandSource'
       /\ ~expandTranslation']_vars

\* ------------------------------------------------------------------------
\* C13  From the start of one pass of the outside-click handler until the
\* guard is released, every further mousedown is ignored: it schedules no
\* hide and no second release, so a burst hides the button at most once;
\* and a guard that is held is always released in the end.
\* ------------------------------------------------------------------------
C13_GuardedBurst ==
  /\ [][isOutsideClickProcessing =>
          /\ rafPending' <= rafPending
          /\ guardTimers' <= guardTimers]_vars
  /\ [](isOutsideClickProcessing => guardTimers = 1)
  /\ (isOutsideClickProcessing ~> ~isOutsideClickProcessing)

\* a pass has scheduled the hide and still holds the guard
C13_Witness == isOutsideClickProcessing /\ rafPending > 0 /\ guardTimers = 1

\* ------------------------------------------------------------------------
\* C14  When the stored enabled flag becomes false, in any state, button and
\* popup are hidden and both document listeners are detached; when it
\* becomes true again the listeners are back and the page shows neither
\* button nor popup, until a mouseup over a non-empty selection shows the
\* button (and only the button opens the popup).
\* ------------------------------------------------------------------------
C14_DisableHidesEnableIdles ==
  /\ [](~isTranslateEnabled =>
          /\ ~isButtonVisible
          /\ ~isResultVisible
          /\ mouseupListeners = 0
          /\ mousedownListeners = 0)
  /\ [][~isTranslateEnabled /\ isTranslateEnabled' =>
          /\ ~isButtonVisible'
          /\ ~isResultVisible'
          /\ mouseupListeners' = 1
          /\ mousedownListeners' = 1]_vars
  /\ [][~isButtonVisible /\ isButtonVisible' =>
          isTranslateEnabled /\ SelectionText # <<>> /\ selectedText' = SelectionText]_vars
  /\ [][~isResultVisible /\ isResultVisible' => isButtonVisible]_vars

\* the feature was switched off while a request of an open popup was in flight
C14_Witness ==
  /\ ~isTranslateEnabled
  /\ mounted
  /\ isLoading
  /\ \E r \in requests : r.popup = popupGen /\ r.phase = "fetching"

\* ------------------------------------------------------------------------
\* C15  When the request of the popup on the page settles, the popup shows
\* the response's result (not loading, no error, translatedText = result)
\* exactly when the response has success = true, and shows a failure message
\* exactly when it has success = false or sendToBackground rejected.
\* ------------------------------------------------------------------------
Succeeded(r) == r.sent # <<>> /\ r.sent[1].success

C15_OutcomeShownAsSent ==
  [][\A r \in requests :
       (Settled(r) /\ OwnPopupOpen(r)) =>
         /\ ~isLoading'
         /\ IF Succeeded(r)
              THEN error' = Null /\ translatedText' = r.sent[1].result
              ELSE Truthy(error')]_vars

\* ------------------------------------------------------------------------
\* C16  A request is issued only by activating the trigger while the button
\* is shown and no popup is open; that step hides the button, opens the
\* popup as loading and sends exactly one request, whose text is the
\* captured text, and the captured text is only ever set by a mouseup over
\* a non-empty selection, to that selection's text.
\* ------------------------------------------------------------------------
C16_TriggerIssuesOneCall ==
  /\ [][issued' # issued =>
          /\ isTranslateEnabled /\ isButtonVisible /\ ~isResultVisible
          /\ ~isButtonVisible' /\ isResultVisible' /\ isLoading'
          /\ issued' = issued + 1
          /\ \E r \in requests' :
               /\ r \notin requests
               /\ requests' = requests \cup {r}
               /\ r.phase = "sent"
               /\ r.text = selectedText]_vars
  /\ [][requests' \subseteq requests \/ issued' # issued
          \/ \A r \in requests' : \E q \in requests : q.id = r.id]_vars
  /\ [][(selectedText' # selectedText /\ mounted') =>
          /\ isTranslateEnabled /\ ~isTranslating
          /\ SelectionText # <<>>
          /\ selectedText' = SelectionText]_vars

\* the trigger was activated a second time, for another selection
C16_Witness ==
  /\ isResultVisible
  /\ isLoading
  /\ \E r \in requests, q \in requests :
       /\ q.id = 1 /\ r.id = 2
       /\ r.phase = "sent" /\ r.popup = popupGen
       /\ r.text = selectedText /\ q.text # r.text

\* ------------------------------------------------------------------------
\* C17  A mouseup or mousedown whose path holds the trigger button or the
\* popup (its body or its title bar) is not taken for a selection change or an outside click: it leaves
\* the button's visibility, the captured text and the anchor position as
\* they are and schedules no hide of the button.
\* ------------------------------------------------------------------------
C17_OwnElementsAreNotOutside ==
  [][\A target \in {"button", "popup", "handle"} :
       (MouseUp(target) \/ MouseDown(target)) =>
         UNCHANGED <<isButtonVisible, selectedText, position, rafPending>>]_vars

\* a mousedown on the button has run its pass while nothing is selected: the
\* guard is held, the button is still shown and no hide is scheduled
C17_Witness ==
  /\ isButtonVisible
  /\ ~isResultVisible
  /\ isOutsideClickProcessing
  /\ SelectionText = <<>>
  /\ rafPending = 0

\* ------------------------------------------------------------------------
\* C18  A request carries the settings that were stored when the trigger was
\* activated; nothing changes them afterwards, and the endpoint, key and
\* model of its fetch call are those of that snapshot, whatever has been
\* written to the settings since.
\* ------------------------------------------------------------------------
C18_RequestKeepsSnapshot ==
  /\ [][\A q \in requests' :
          IF \E r \in requests : r.id = q.id
            THEN \A r \in requests :
                   r.id = q.id => q.apiConfig = r.apiConfig /\ q.text = r.text
            ELSE q.apiConfig = apiConfig]_vars
  /\ [](\A r \in requests : \A i \in 1..Len(r.calls) :
          /\ r.calls[i].url = Or(r.apiConfig.apiUrl, DefaultApiUrl)
          /\ r.calls[i].authorization = <<"Bearer ">> \o r.apiConfig.apiKey.v
          /\ r.calls[i].model = Or(r.apiConfig.model, DefaultModel))

\* a fetch call in flight whose endpoint, key and model are no longer the
\* stored ones
C18_Witness ==
  \E r \in requests :
    /\ r.phase = "fetching"
    /\ Len(r.calls) = 1
    /\ Truthy(apiConfig)
    /\ r.calls[1].url # Or(apiConfig.apiUrl, DefaultApiUrl)
    /\ r.calls[1].authorization # <<"Bearer ">> \o apiConfig.apiKey.v
    /\ r.calls[1].model # Or(apiConfig.model, DefaultModel)

\* ------------------------------------------------------------------------
\* C19  Through every enabling, disabling, re-render and the teardown of the
\* component, the document has at most one mouseup listener and at most one
\* mousedown listener of the component: one of each exactly while the
\* component is mounted and the feature enabled, none otherwise.
\* ------------------------------------------------------------------------
Attached == IF mounted /\ isTranslateEnabled THEN 1 ELSE 0

C19_OneListenerOfEachKind ==
  /\ mouseupListeners <= 1
  /\ mousedownListeners <= 1
  /\ mouseupListeners = Attached
  /\ mousedownListeners = Attached

\* the component was torn down after its effect had re-run for a popup
C19_Witness ==
  /\ ~mounted
  /\ isTranslateEnabled
  /\ issued > 0
  /\ mouseupListeners = 0
  /\ mousedownListeners = 0

\* ------------------------------------------------------------------------
\* C20  The box's position changes by pointer movement only between a press
\* in its top 30 pixels and the next release; a press lower down starts no
\* drag; after a release no mousemove or mouseup listener of the box is left
\* on window, and movement leaves the position as it is.
\* ------------------------------------------------------------------------
InHandle(pt) == pt.dy < 30

C20_DragOnlyFromHandle ==
  /\ [][\A e \in Pointers :
          (PointerMove(e) /\ position' # position) =>
            dragStarted /\ dragListeners # <<>>]_vars
  /\ [](dragStarted <=> dragListeners # <<>>)
  /\ [][\A pt \in PressPoints :
          (DragPress(PressAt(pt)) /\ ~InHandle(pt)) =>
            UNCHANGED <<dragStarted, dragListeners, position>>]_vars
  /\ [][(dragListeners = <<>> /\ dragListeners' # <<>>) =>
          \E pt \in PressPoints : InHandle(pt) /\ DragPress(PressAt(pt))]_vars
  /\ [][DragRelease => ~dragStarted' /\ dragListeners' = <<>>]_vars

\* the popup was dragged away from where it opened and then released
C20_Witness ==
  /\ isResultVisible
  /\ ~dragStarted
  /\ dragListeners = <<>>
  /\ \A rect \in Rects : position # AnchorBelow(rect)

\* ------------------------------------------------------------------------
\* C21  A popup that stays open leaves the loading state only when its own
\* request settles (and, the requests being answered or failing in the end,
\* it does leave it, for a result or an error).
\* ------------------------------------------------------------------------
C21_LoadingEndsWithOwnRequest ==
  [][(isResultVisible /\ isLoading /\ isResultVisible' /\ ~isLoading'
        /\ popupGen' = popupGen) =>
       \E r \in requests : r.popup = popupGen /\ Settled(r)]_vars

\* ------------------------------------------------------------------------
\* C22  In every reachable state the trigger button and the popup are not
\* both visible, and the popup is visible exactly when isTranslating is set.
\* ------------------------------------------------------------------------
C22_ButtonXorPopup ==
  /\ ~(isButtonVisible /\ isResultVisible)
  /\ isResultVisible <=> isTranslating

\* a popup is open while the page holds another, non-empty selection and a
\* mousedown outside has just been handled
C22_Witness ==
  /\ isResultVisible
  /\ isTranslating
  /\ ~isButtonVisible
  /\ SelectionText # <<>>
  /\ SelectionText # selectedText
  /\ isOutsideClickProcessing

\* ------------------------------------------------------------------------
\* C23  While a popup is open a mouseup on the page leaves the captured
\* text, the position and the button's visibility as they are; a mouseup
\* shows the button or captures text or position only when the feature is
\* enabled, no popup is open and the trimmed selection is not empty, and
\* then it captures that text and the point below the selection's box.
\* ------------------------------------------------------------------------
Captures ==
  \/ selectedText' # selectedText
  \/ position' # position
  \/ ~isButtonVisible /\ isButtonVisible'

C23_SelectionFrame ==
  [][\A target \in Elements :
       MouseUp(target) =>
         /\ isResultVisible => UNCHANGED <<selectedText, position, isButtonVisible>>
         /\ Captures =>
              /\ isTranslateEnabled /\ ~isResultVisible
              /\ SelectionText # <<>>
              /\ isButtonVisible'
              /\ selectedText' = SelectionText
              /\ position' = AnchorBelow(domSelection.rect)]_vars

\* the page's selection was changed while a popup was open, and the captured
\* text and position are still those of the popup's selection
C23_Witness ==
  /\ isResultVisible
  /\ ~isButtonVisible
  /\ SelectionText # <<>>
  /\ SelectionText # selectedText
  /\ position # AnchorBelow(domSelection.rect)
  /\ \E r \in requests : r.popup = popupGen /\ r.text = selectedText

\* ------------------------------------------------------------------------
\* C24  The button is hidden only by a step at which the selection is empty
\* and no popup is open, or by the trigger, the disabling of the feature or
\* the teardown: a hide deferred from a mousedown does not hide a button
\* that is shown for a non-empty selection.
\* ------------------------------------------------------------------------
C24_HiddenOnlyWhenSelectionEmpty ==
  [][(isButtonVisible /\ ~isButtonVisible') =>
       \/ SelectionText = <<>> /\ ~isResultVisible
       \/ issued' # issued
       \/ ~isTranslateEnabled'
       \/ ~mounted']_vars

====
